---- MODULE Spec2Model ----
(***************************************************************************)
(* Model of the multicast (S,G) flow status collectors of                  *)
(* netpaca-multicast: the Arista EOS collector (mcast_sg/eapi.py) and the  *)
(* Cisco NX-OS collector (mcast_sg/nxapi.py).                              *)
(*                                                                         *)
(* Texts are sequences of lexemes (single characters, or an atomic lexeme  *)
(* such as an IP address); the string operations of the code (startswith,  *)
(* in, join, the S,G regular expression, the TTP template) are computed on *)
(* those sequences.                                                        *)
(***************************************************************************)
EXTENDS Integers, Sequences, FiniteSets, TLC

VARIABLES
    pc,                 \* position of the collector coroutine in its poll cycle
    vendor,             \* which collector runs the cycle: "eos" or "nxos"
    timestamp,          \* the timestamp argument of the cycle
    cmds,               \* device commands issued in the cycle, in order
    oks,                \* the ok flag of each command result, in order
    log,                \* device.log calls of the cycle, in order
    mroute_out,         \* output of the primary mroute command (cli / xml)
    fdmr_text,          \* output text of the FDMR command (NX-OS)
    fdmr_data,          \* the flags map built by _parse_show_fdmr
    result,             \* what the coroutine hands back: None, a list, a raise
    prev,               \* the previous finished cycle: its inputs and result
    ttp_one_as_dict,    \* the installed TTP gives a group matched once as a dict
    c_vendor,           \* classifier runs: which classifier
    c_rec,              \* classifier runs: the flow record
    c_flags,            \* classifier runs: the flags argument (NX-OS)
    c_status            \* classifier runs: what the classifier returned

vars == <<pc, vendor, timestamp, cmds, oks, log, mroute_out, fdmr_text,
          fdmr_data, result, prev, ttp_one_as_dict,
          c_vendor, c_rec, c_flags, c_status>>

cycleVars == <<pc, vendor, timestamp, cmds, oks, log, mroute_out, fdmr_text,
               fdmr_data, result, prev, ttp_one_as_dict>>

classifyVars == <<c_vendor, c_rec, c_flags, c_status>>

\* what no step of a poll cycle changes
otherVars == <<classifyVars, ttp_one_as_dict>>

----------------------------------------------------------------------------
(* Bounds of the model.                                                    *)

MaxRows == 2        \* route rows (NX-OS) in one mroute output
MaxLines == 2       \* lines in one FDMR text
MaxFlows == 2       \* (group, source) entries in one EOS mroute output
MaxTs == 2          \* distinct timestamps handed to the coroutine
PairRows == 1       \* rows or entries per output when two cycles are compared
PairLines == 1      \* FDMR lines per text when two cycles are compared

----------------------------------------------------------------------------
(* Python values and string operations.                                    *)

\* Python's None. Device texts are sequences of characters and lexemes, none
\* of which is the lexeme "None", so no text equals it.
None == <<"None">>

StartsWith(s, p) ==
    /\ Len(s) >= Len(p)
    /\ SubSeq(s, 1, Len(p)) = p

Contains(s, ch) == \E i \in 1..Len(s) : s[i] = ch

RECURSIVE Join(_, _)
Join(names, sep) ==
    IF names = <<>> THEN <<>>
    ELSE IF Len(names) = 1 THEN names[1]
    ELSE names[1] \o sep \o Join(Tail(names), sep)

\* xml_sg_rec.findtext(name): the text of the child, None when there is none
FindText(xml_sg_rec, name) ==
    IF name \in DOMAIN xml_sg_rec THEN xml_sg_rec[name] ELSE None

\* a returned value, or the exception raised instead
Return(v) == [raised |-> FALSE, value |-> v, exc |-> "-"]
Raise(e) == [raised |-> TRUE, value |-> -1, exc |-> e]

----------------------------------------------------------------------------
(* The status classifiers.                                                 *)

RatePrefix == <<"0", ".", "0", "0", "0", " ">>
TrueText == <<"t", "r", "u", "e">>

\* _mcast_sg_status without the oifList test of the SPT rule
_mcast_sg_status_no_oif_test(mcast_flow) ==
    IF "routeFlags" \notin DOMAIN mcast_flow THEN Raise("KeyError")
    ELSE LET flags == mcast_flow["routeFlags"] IN
         IF StartsWith(flags, <<"S">>) THEN Return(0)
         ELSE IF StartsWith(flags, <<"J">>) THEN Return(2)
         ELSE Return(1)

_mcast_sg_status(mcast_flow) ==
    IF "routeFlags" \notin DOMAIN mcast_flow THEN Raise("KeyError")
    ELSE LET flags == mcast_flow["routeFlags"] IN
         IF StartsWith(flags, <<"S">>) THEN
             IF "oifList" \notin DOMAIN mcast_flow THEN Raise("KeyError")
             ELSE Return(IF mcast_flow["oifList"] # <<>> THEN 0 ELSE 1)
         ELSE IF StartsWith(flags, <<"J">>) THEN Return(2)
         ELSE Return(1)

\* _form_sg_status testing the flags for "O" alone
_form_sg_status_O_only(xml_sg_rec, flags) ==
    IF FindText(xml_sg_rec, "pending") = TrueText THEN Return(2)
    ELSE IF Contains(flags, "O") THEN Return(2)
    ELSE LET rate == FindText(xml_sg_rec, "stats-rate-buf") IN
         IF rate = None THEN Raise("AttributeError")
         ELSE Return(IF StartsWith(rate, RatePrefix) THEN 1 ELSE 0)

_form_sg_status(xml_sg_rec, flags) ==
    IF FindText(xml_sg_rec, "pending") = TrueText THEN Return(2)
    ELSE IF Contains(flags, "O") \/ Contains(flags, "D") THEN Return(2)
    ELSE LET rate == FindText(xml_sg_rec, "stats-rate-buf") IN
         IF rate = None THEN Raise("AttributeError")
         ELSE Return(IF StartsWith(rate, RatePrefix) THEN 1 ELSE 0)

----------------------------------------------------------------------------
(* The S,G regular expression of the NX-OS collector.                      *)

\* lexemes that consist of decimal digits only
DigitLexemes == {"8", "24", "32"}

IsDigits(text, i, j) ==
    /\ i <= j
    /\ \A k \in i..j : text[k] \in DigitLexemes

\* Every way r"\((?P<S>.+)/\d+, (?P<G>.+)/\d+\)" matches at the start of
\* text: <<a, b, c, d>> with S = text[2..a], the first mask text[a+2..b],
\* G = text[b+3..c] and the second mask text[c+2..d].
ReSplits(text) ==
    LET n == Len(text) IN
    IF n = 0 THEN {}
    ELSE IF text[1] # "(" THEN {}
    ELSE UNION { UNION { UNION {
             { <<a, b, c, d>> :
                  d \in { d \in (c + 2)..(n - 1) :
                             /\ IsDigits(text, c + 2, d)
                             /\ text[d + 1] = ")" } } :
             c \in { c \in (b + 3)..(n - 3) : text[c + 1] = "/" } } :
             b \in { b \in (a + 2)..(n - 6) :
                        /\ IsDigits(text, a + 2, b)
                        /\ text[b + 1] = ","
                        /\ text[b + 2] = " " } } :
             a \in { a \in 2..(n - 8) : text[a + 1] = "/" } }

\* the order in which the backtracking matcher tries the splits: every
\* quantifier is greedy, the leftmost one decides first
LexLeq(s, t) ==
    \/ s[1] < t[1]
    \/ s[1] = t[1] /\ s[2] < t[2]
    \/ s[1] = t[1] /\ s[2] = t[2] /\ s[3] < t[3]
    \/ s[1] = t[1] /\ s[2] = t[2] /\ s[3] = t[3] /\ s[4] <= t[4]

\* _re_extracto_S_G(text): the groups <<S, G>> of the match, None without one
_re_extracto_S_G(text) ==
    LET splits == ReSplits(text) IN
    IF splits = {} THEN None
    ELSE LET m == CHOOSE s \in splits : \A t \in splits : LexLeq(t, s) IN
         << SubSeq(text, 2, m[1]), SubSeq(text, m[2] + 3, m[3]) >>

----------------------------------------------------------------------------
(* The TTP template of the FDMR text.                                      *)

IPLexemes == {"0.0.0.0", "10.0.0.1", "10.0.0.2", "224.1.1.1", "224.1.1.2"}

\* the literal text between the two variables of the template's first half
FdmrHead(s, g) ==
    <<"(", s, "/", "32", ",", " ", g, "/", "32", ")", ",", " ",
      "RPF", " ", "Interface:", " ">>

FdmrMid == <<",", " ", "flags:", " ">>

NoSpace(line, i, j) ==
    /\ i <= j
    /\ \A k \in i..j : line[k] # " "

\* TtpSplits for a template that takes any mask length for "32"
TtpSplitsAnyMask(line) ==
    LET n == Len(line) IN
    IF n < 22 THEN {}
    ELSE IF ~ (line[2] \in IPLexemes /\ line[7] \in IPLexemes) THEN {}
    ELSE IF ~ (line[4] \in DigitLexemes /\ line[9] \in DigitLexemes) THEN {}
    ELSE IF [i \in 1..16 |-> IF i \in {4, 9} THEN "32" ELSE line[i]]
               # FdmrHead(line[2], line[7]) THEN {}
    ELSE { k \in 17..(n - 5) :
              /\ NoSpace(line, 17, k)
              /\ SubSeq(line, k + 1, k + 4) = FdmrMid
              /\ NoSpace(line, k + 5, n) }

\* Where the {{ ignore }} word may end when line matches the template line
\* "({{ source_ipaddr | IP }}/32, {{ group_ipaddr | IP }}/32), RPF Interface:
\* {{ ignore }}, flags: {{ flags }}"; empty when the line does not match.
TtpSplits(line) ==
    LET n == Len(line) IN
    IF n < 22 THEN {}
    ELSE IF ~ (line[2] \in IPLexemes /\ line[7] \in IPLexemes) THEN {}
    ELSE IF SubSeq(line, 1, 16) # FdmrHead(line[2], line[7]) THEN {}
    ELSE { k \in 17..(n - 5) :
              /\ NoSpace(line, 17, k)
              /\ SubSeq(line, k + 1, k + 4) = FdmrMid
              /\ NoSpace(line, k + 5, n) }

\* the match of one line: the variables the template captures
TtpRecord(line) ==
    LET k == CHOOSE k \in TtpSplits(line) : TRUE IN
    [source_ipaddr |-> <<line[2]>>,
     group_ipaddr |-> <<line[7]>>,
     flags |-> SubSeq(line, k + 5, Len(line))]

RECURSIVE TtpMatches(_)
TtpMatches(lines) ==
    IF lines = <<>> THEN <<>>
    ELSE IF TtpSplits(Head(lines)) = {} THEN TtpMatches(Tail(lines))
    ELSE <<TtpRecord(Head(lines))>> \o TtpMatches(Tail(lines))

\* parser.result()[0]. TTP is a library outside the repository; the code
\* relies on it giving an empty list when no line of the text matched the
\* group, else one result whose "mc_flows" holds the matches in text order.
\* TTP's default for a group that matched once is the match itself, a dict,
\* and not a list of one match: which of the two the installed TTP gives is
\* ttp_one_as_dict.
TtpResult(cli_text) ==
    LET recs == TtpMatches(cli_text) IN
    IF recs = <<>> THEN <<>>
    ELSE IF Len(recs) = 1 /\ ttp_one_as_dict
    THEN << [mc_flows |-> [type |-> "dict", items |-> recs]] >>
    ELSE << [mc_flows |-> [type |-> "list", items |-> recs]] >>

EmptyMap == [k \in {} |-> <<>>]

\* a dict comprehension: a later record replaces an earlier one of its key
RECURSIVE DictOf(_, _)
DictOf(recs, acc) ==
    IF recs = <<>> THEN acc
    ELSE LET rec == Head(recs)
             key == <<rec.source_ipaddr, rec.group_ipaddr>>
         IN DictOf(Tail(recs),
                   [k \in DOMAIN acc \cup {key} |->
                       IF k = key THEN rec.flags ELSE acc[k]])

\* _parse_show_fdmr keeping the map of the cycle the executor's observer
\* holds when no line of the text matches
_parse_show_fdmr_keep(cli_text) ==
    LET found == TtpResult(cli_text) IN
    IF found = <<>>
    THEN (IF prev.fdmr_text = <<"unbound">> THEN Return(EmptyMap)
          ELSE Return(DictOf(TtpMatches(prev.fdmr_text), EmptyMap)))
    ELSE IF found[1].mc_flows.type = "dict" THEN Raise("TypeError")
    ELSE Return(DictOf(found[1].mc_flows.items, EmptyMap))

\* The map of (source, group) to flags, or what the function raises: the
\* comprehension of lines 231-234 iterates found[0]["mc_flows"], and over a
\* dict that yields its keys, strings, which rec["source_ipaddr"] cannot index.
_parse_show_fdmr(cli_text) ==
    LET found == TtpResult(cli_text) IN
    IF found = <<>> THEN Return(EmptyMap)
    ELSE IF found[1].mc_flows.type = "dict" THEN Raise("TypeError")
    ELSE Return(DictOf(found[1].mc_flows.items, EmptyMap))

\* fdmr_data.get(key, "")
DictGet(d, key) == IF key \in DOMAIN d THEN d[key] ELSE <<>>

----------------------------------------------------------------------------
(* Metrics.                                                                *)

DecDigits == <<"0", "1", "2", "3", "4", "5", "6", "7", "8", "9">>

\* str(n) of a number n >= 0
RECURSIVE DecStr(_)
DecStr(n) ==
    IF n < 10 THEN <<DecDigits[n + 1]>>
    ELSE DecStr(n \div 10) \o <<DecDigits[(n % 10) + 1]>>

McastSGStatus(ts, value, tags) == [ts |-> ts, value |-> value, tags |-> tags]

\* nxapi.py _make_metric: the metric of one route row, or what it raises
_make_metric(ts, xml_sg_rec, data) ==
    LET text == FindText(xml_sg_rec, "mcast-addrs") IN
    IF text = None THEN Raise("TypeError")
    ELSE LET mo == _re_extracto_S_G(text) IN
    IF mo = None THEN Raise("AttributeError")
    ELSE LET mcast_s == mo[1]
             mcast_g == mo[2]
             mcast_flags == DictGet(data, <<mcast_s, mcast_g>>)
             status == _form_sg_status(xml_sg_rec, mcast_flags)
             oif_list == xml_sg_rec["TABLE_oif"]
         IN IF status.raised THEN status
            ELSE Return(McastSGStatus(ts, status.value,
                     [S |-> mcast_s,
                      G |-> mcast_g,
                      rpf_if_name |-> FindText(xml_sg_rec, "route-iif"),
                      flags |-> mcast_flags,
                      oif_count |-> DecStr(Len(oif_list)),
                      oif_list |-> Join(oif_list, <<",">>)]))

\* what a cycle hands back
Pending == [kind |-> "pending", metrics |-> <<>>, exc |-> "-", at |-> 0]
ReturnNone == [kind |-> "None", metrics |-> <<>>, exc |-> "-", at |-> 0]
ReturnList(ms) == [kind |-> "list", metrics |-> ms, exc |-> "-", at |-> 0]
Raised(e, i) == [kind |-> "raise", metrics |-> <<>>, exc |-> e, at |-> i]

\* the comprehension leaving out the rows _make_metric raises on
RECURSIVE NxMetricsSkip(_, _, _, _, _)
NxMetricsSkip(ts, rows, data, i, acc) ==
    IF i > Len(rows) THEN ReturnList(acc)
    ELSE LET m == _make_metric(ts, rows[i], data) IN
         IF m.raised THEN NxMetricsSkip(ts, rows, data, i + 1, acc)
         ELSE NxMetricsSkip(ts, rows, data, i + 1, Append(acc, m.value))

\* the list comprehension of nxapi.py lines 162-165: one metric per row in
\* document order; what _make_metric raises ends the comprehension
RECURSIVE NxMetrics(_, _, _, _, _)
NxMetrics(ts, rows, data, i, acc) ==
    IF i > Len(rows) THEN ReturnList(acc)
    ELSE LET m == _make_metric(ts, rows[i], data) IN
         IF m.raised THEN Raised(m.exc, i)
         ELSE NxMetrics(ts, rows, data, i + 1, Append(acc, m.value))

\* eapi.py _find_mcast_sg_flows: the (S, G, data) of every source of every
\* group that is not the wildcard, in the order of the two mappings
RECURSIVE SourcesOf(_, _)
SourcesOf(mc_g_ip, sources) ==
    IF sources = <<>> THEN <<>>
    ELSE LET mc_s_ip == Head(sources).key
             mc_s_data == Head(sources).val
         IN (IF mc_s_ip # <<"0.0.0.0">>
             THEN << <<mc_s_ip, mc_g_ip, mc_s_data>> >>
             ELSE <<>>) \o SourcesOf(mc_g_ip, Tail(sources))

RECURSIVE GroupsOf(_)
GroupsOf(all_mc_gr_data) ==
    IF all_mc_gr_data = <<>> THEN <<>>
    ELSE SourcesOf(Head(all_mc_gr_data).key,
                   Head(all_mc_gr_data).val.groupSources)
         \o GroupsOf(Tail(all_mc_gr_data))

_find_mcast_sg_flows(cli_data) == GroupsOf(cli_data.groups)

\* the metric of one EOS flow (eapi.py lines 162-171), or the KeyError of a
\* missing key
EosMetric(ts, mcast_S, mcast_G, flow_data) ==
    LET status == _mcast_sg_status(flow_data) IN
    IF status.raised THEN status
    ELSE IF {"routeFlags", "rpfInterface", "oifList"} \subseteq DOMAIN flow_data
    THEN Return(McastSGStatus(ts, status.value,
             [S |-> mcast_S,
              G |-> mcast_G,
              flags |-> flow_data["routeFlags"],
              rpf_if_name |-> flow_data["rpfInterface"],
              oif_list |-> Join(flow_data["oifList"], <<",">>)]))
    ELSE Raise("KeyError")

RECURSIVE EosMetrics(_, _, _, _)
EosMetrics(ts, flows, i, acc) ==
    IF i > Len(flows) THEN ReturnList(acc)
    ELSE LET m == EosMetric(ts, flows[i][1], flows[i][2], flows[i][3]) IN
         IF m.raised THEN Raised(m.exc, i)
         ELSE EosMetrics(ts, flows, i + 1, Append(acc, m.value))

----------------------------------------------------------------------------
(* Device outputs the cycles are run on.                                   *)

SeqsUpTo(S, n) == UNION { [1..k -> S] : k \in 0..n }

Timestamps == 1..MaxTs

RateZero == <<"0", ".", "0", "0", "0", " ", "p", "p", "s">>
RateBusy == <<"1", "2", "0", ".", "5", " ", "p", "p", "s">>
RateTiny == <<"0", ".", "0", "0", "0", "1", " ", "p", "p", "s">>
RateBare == <<"0", ".", "0", "0", "0">>
FalseText == <<"f", "a", "l", "s", "e">>
TrueCaps == <<"T", "r", "u", "e">>

Eth1 == <<"Eth1">>
Eth2 == <<"Eth2">>
Eth3 == <<"Eth3">>

\* the mcast-addrs text "(s/32, g/32)"
AddrsText(s, g) == <<"(", s, "/", "32", ",", " ", g, "/", "32", ")">>
\* "(*, g/32)", the form of a (*,G) route
StarText(g) == <<"(", "*", ",", " ", g, "/", "32", ")">>

\* One ROW_one_route element: the texts of its children mcast-addrs,
\* route-iif, pending and stats-rate-buf (None: the row has no such child)
\* and the oif-name texts of TABLE_oif/ROW_oif.
XmlRow(addrs, iif, pending, rate, oifs) ==
    LET all == [n \in {"mcast-addrs", "route-iif", "pending", "stats-rate-buf"} |->
                   CASE n = "mcast-addrs" -> addrs
                     [] n = "route-iif" -> iif
                     [] n = "pending" -> pending
                     [] OTHER -> rate]
        present == { n \in DOMAIN all : all[n] # None }
    IN [n \in present \cup {"TABLE_oif"} |->
           IF n = "TABLE_oif" THEN oifs ELSE all[n]]

S1G1 == AddrsText("10.0.0.1", "224.1.1.1")
S2G1 == AddrsText("10.0.0.2", "224.1.1.1")

RowActive == XmlRow(S1G1, Eth1, None, RateBusy, <<Eth2, Eth3>>)
RowPending == XmlRow(S2G1, Eth1, TrueText, RateZero, <<>>)
RowIdle == XmlRow(S1G1, Eth1, FalseText, RateZero, <<Eth2>>)
RowNoOif == XmlRow(S2G1, Eth1, None, RateBusy, <<>>)
RowWildcard == XmlRow(AddrsText("0.0.0.0", "224.1.1.1"), Eth1, None, RateBusy, <<Eth2>>)
RowStar == XmlRow(StarText("224.1.1.1"), Eth1, None, RateBusy, <<Eth2>>)
RowNoAddrs == XmlRow(None, Eth1, None, RateBusy, <<Eth2>>)
RowNoRate == XmlRow(S1G1, None, None, None, <<Eth2>>)

\* the route rows the NX-OS cycles are run on
NxRows == {RowActive, RowPending, RowIdle, RowNoOif, RowWildcard, RowStar,
           RowNoAddrs, RowNoRate}

\* the rows xml_mroute_sgtree.xpath(".//ROW_one_route") selects, in order
NxDocs == SeqsUpTo(NxRows, MaxRows)

\* one line of "show forwarding distribution multicast route"
FdmrLine(s, g, rpf, flags) == FdmrHead(s, g) \o rpf \o FdmrMid \o flags

LineO == FdmrLine("10.0.0.1", "224.1.1.1", Eth1, <<"O">>)
LineGL == FdmrLine("10.0.0.1", "224.1.1.1", Eth1, <<"G", "L">>)
LineD == FdmrLine("10.0.0.2", "224.1.1.1", <<"E", "1", ",">>, <<"L", "D">>)
\* lines the template does not match: the legend, and a /24 route
LineLegend == <<"Legend:">>
LineMask == <<"(", "10.0.0.1", "/", "24", ",", " ", "224.1.1.1", "/", "32", ")",
              ",", " ", "RPF", " ", "Interface:", " ", "Eth1", ",", " ",
              "flags:", " ", "O">>

FdmrLines == {LineO, LineGL, LineD, LineLegend, LineMask}
FdmrTexts == SeqsUpTo(FdmrLines, MaxLines)

\* the records of groups[G].groupSources[S] the EOS cycles are run on
FlowData(flags, rpf, oifs) ==
    LET all == [n \in {"routeFlags", "rpfInterface", "oifList"} |->
                   CASE n = "routeFlags" -> flags
                     [] n = "rpfInterface" -> rpf
                     [] OTHER -> oifs]
    IN [n \in { n \in DOMAIN all : all[n] # None } |-> all[n]]

FlowSpt == FlowData(<<"S">>, Eth1, <<Eth2>>)
FlowSptNoOif == FlowData(<<"S", "K">>, Eth1, <<>>)
FlowJoining == FlowData(<<"J">>, Eth1, <<Eth2, Eth3>>)
FlowOther == FlowData(<<"K", "M">>, Eth1, <<Eth2>>)
FlowNoFlags == FlowData(None, Eth1, <<Eth2>>)

EosFlowData == {FlowSpt, FlowSptNoOif, FlowJoining, FlowOther, FlowNoFlags}
EosGroups == { <<"224.1.1.1">>, <<"224.1.1.2">> }
EosSources == { <<"0.0.0.0">>, <<"10.0.0.1">>, <<"10.0.0.2">> }

\* one entry groups[G].groupSources[S] = data
EosEntries == [G : EosGroups, S : EosSources, data : EosFlowData]

\* the keys of a mapping are distinct
DistinctKeys(es) ==
    \A i, j \in 1..Len(es) : i # j => <<es[i].G, es[i].S>> # <<es[j].G, es[j].S>>

\* the sources of group g among the entries, in order
RECURSIVE SourcesIn(_, _)
SourcesIn(es, g) ==
    IF es = <<>> THEN <<>>
    ELSE (IF Head(es).G = g
          THEN << [key |-> Head(es).S, val |-> Head(es).data] >>
          ELSE <<>>) \o SourcesIn(Tail(es), g)

\* the groups mapping holding the entries: every group once, at its first entry
RECURSIVE GroupsIn(_, _)
GroupsIn(es, i) ==
    IF i > Len(es) THEN <<>>
    ELSE (IF \E j \in 1..(i - 1) : es[j].G = es[i].G
          THEN <<>>
          ELSE << [key |-> es[i].G,
                   val |-> [groupSources |-> SourcesIn(es, es[i].G)]] >>)
         \o GroupsIn(es, i + 1)

\* the output of "show ip mroute" holding the entries
CliData(es) == [groups |-> GroupsIn(es, 1)]

EosDocsOf(entries, n) ==
    { CliData(es) : es \in { es \in SeqsUpTo(entries, n) : DistinctKeys(es) } }

EosDocs == EosDocsOf(EosEntries, MaxFlows)

----------------------------------------------------------------------------
(* The poll cycle of a collector: get_mcast_flow_metrics.                  *)

EosMrouteCmd == "show ip mroute"
NxMrouteCmd == "show ip mroute source-tree detail"
NxFdmrCmd == " show forwarding distribution multicast route"

\* a local of the coroutine that no statement of the cycle has assigned
Unbound == <<"unbound">>

\* a cycle not yet recorded
NoCycle == [vendor |-> "-", ts |-> 0, oks |-> <<>>, mroute_out |-> Unbound,
            fdmr_text |-> Unbound, result |-> Pending]

InitCycle ==
    /\ pc = "idle"
    /\ vendor = "-"
    /\ timestamp = 0
    /\ cmds = <<>>
    /\ oks = <<>>
    /\ log = <<>>
    /\ mroute_out = Unbound
    /\ fdmr_text = Unbound
    /\ fdmr_data = Unbound
    /\ result = Pending
    /\ prev = NoCycle
    /\ ttp_one_as_dict \in BOOLEAN

\* the executor invokes the coroutine with the timestamp of the cycle; the
\* coroutine issues its first command and awaits the result
Invoke(v, ts, cmd) ==
    /\ pc = "idle"
    /\ pc' = "mroute"
    /\ vendor' = v
    /\ timestamp' = ts
    /\ cmds' = <<cmd>>
    /\ oks' = <<>>
    /\ log' = <<>>
    /\ result' = Pending
    /\ UNCHANGED <<mroute_out, fdmr_text, fdmr_data, prev, otherVars>>

\* eapi.py line 152
EosStart == \E ts \in Timestamps : Invoke("eos", ts, EosMrouteCmd)

\* nxapi.py line 139
NxStart == \E ts \in Timestamps : Invoke("nxos", ts, NxMrouteCmd)

\* the mroute result is not ok, and the cycle hands back an empty list
EosMrouteFailEmptyList ==
    /\ pc = "mroute" /\ vendor = "eos"
    /\ oks' = Append(oks, FALSE)
    /\ log' = Append(log, "error")
    /\ result' = ReturnList(<<>>)
    /\ pc' = "done"
    /\ UNCHANGED <<vendor, timestamp, cmds, mroute_out, fdmr_text, fdmr_data,
                   prev, otherVars>>

\* eapi.py lines 155-159: the mroute result is not ok
EosMrouteFail ==
    /\ pc = "mroute" /\ vendor = "eos"
    /\ oks' = Append(oks, FALSE)
    /\ log' = Append(log, "error")
    /\ result' = ReturnNone
    /\ pc' = "done"
    /\ UNCHANGED <<vendor, timestamp, cmds, mroute_out, fdmr_text, fdmr_data,
                   prev, otherVars>>

\* eapi.py lines 161-175: the mroute result is ok
EosMrouteOk(docs) ==
    /\ pc = "mroute" /\ vendor = "eos"
    /\ \E output \in docs :
          /\ mroute_out' = output
          /\ result' = EosMetrics(timestamp, _find_mcast_sg_flows(output), 1, <<>>)
    /\ oks' = Append(oks, TRUE)
    /\ pc' = "done"
    /\ UNCHANGED <<vendor, timestamp, cmds, log, fdmr_text, fdmr_data, prev,
                   otherVars>>

\* nxapi.py lines 141-146: the mroute result is not ok
NxMrouteFail ==
    /\ pc = "mroute" /\ vendor = "nxos"
    /\ oks' = Append(oks, FALSE)
    /\ log' = Append(log, "error")
    /\ result' = ReturnNone
    /\ pc' = "done"
    /\ UNCHANGED <<vendor, timestamp, cmds, mroute_out, fdmr_text, fdmr_data,
                   prev, otherVars>>

\* nxapi.py lines 148-155: the mroute result is ok; the FDMR command is issued
NxMrouteOk(docs) ==
    /\ pc = "mroute" /\ vendor = "nxos"
    /\ \E output \in docs : mroute_out' = output
    /\ oks' = Append(oks, TRUE)
    /\ cmds' = Append(cmds, NxFdmrCmd)
    /\ pc' = "fdmr"
    /\ UNCHANGED <<vendor, timestamp, log, fdmr_text, fdmr_data, result, prev,
                   otherVars>>

\* nxapi.py lines 156-158: the FDMR result is not ok
NxFdmrFail ==
    /\ pc = "fdmr"
    /\ oks' = Append(oks, FALSE)
    /\ log' = Append(log, "error")
    /\ result' = ReturnNone
    /\ pc' = "done"
    /\ UNCHANGED <<vendor, timestamp, cmds, mroute_out, fdmr_text, fdmr_data,
                   prev, otherVars>>

\* nxapi.py lines 160-167: the FDMR result is ok
NxFdmrOk(texts) ==
    /\ pc = "fdmr"
    /\ \E text \in texts :
          LET parsed == _parse_show_fdmr(text) IN
          /\ fdmr_text' = text
          /\ fdmr_data' = IF parsed.raised THEN fdmr_data ELSE parsed.value
          /\ result' = IF parsed.raised THEN Raised(parsed.exc, 0)
                        ELSE NxMetrics(timestamp, mroute_out, parsed.value, 1, <<>>)
    /\ oks' = Append(oks, TRUE)
    /\ pc' = "done"
    /\ UNCHANGED <<vendor, timestamp, cmds, log, mroute_out, prev, otherVars>>

\* the cycle as the executor saw it: what the commands returned, the
\* timestamp, and what the coroutine handed back
ThisCycle == [vendor |-> vendor, ts |-> timestamp, oks |-> oks,
              mroute_out |-> mroute_out, fdmr_text |-> fdmr_text,
              result |-> result]

\* The coroutine has returned or raised: the executor takes the result and
\* the frame of the coroutine is gone. With track, the executor's observer
\* may keep this cycle as the one later cycles are compared with.
Finish(track) ==
    /\ pc = "done"
    /\ pc' = "idle"
    /\ mroute_out' = Unbound
    /\ fdmr_text' = Unbound
    /\ fdmr_data' = Unbound
    /\ \/ track /\ prev' = ThisCycle
       \/ prev' = prev
    /\ UNCHANGED <<vendor, timestamp, cmds, oks, log, result, otherVars>>

\* no classifier has run
NotRun == [raised |-> FALSE, value |-> -1, exc |-> "not run"]

InitClassifyIdle ==
    /\ c_vendor = "-"
    /\ c_rec = <<>>
    /\ c_flags = <<>>
    /\ c_status = NotRun

Init == InitCycle /\ InitClassifyIdle

Next ==
    \/ EosStart
    \/ EosMrouteFail
    \/ EosMrouteOk(EosDocs)
    \/ NxStart
    \/ NxMrouteFail
    \/ NxMrouteOk(NxDocs)
    \/ NxFdmrFail
    \/ NxFdmrOk(FdmrTexts)
    \/ Finish(FALSE)

Spec == Init /\ [][Next]_vars

----------------------------------------------------------------------------
(* Two cycles compared: the executor's observer keeps an earlier cycle.    *)

PairNxRows == {RowActive, RowPending, RowNoAddrs}
PairNxDocs == SeqsUpTo(PairNxRows, PairRows)
PairFdmrTexts == SeqsUpTo({LineO, LineLegend}, PairLines)
PairEosEntries ==
    { [G |-> <<"224.1.1.1">>, S |-> <<"10.0.0.1">>, data |-> FlowSpt],
      [G |-> <<"224.1.1.1">>, S |-> <<"0.0.0.0">>, data |-> FlowOther] }
PairEosDocs == EosDocsOf(PairEosEntries, PairRows)

NextPair ==
    \/ EosStart
    \/ EosMrouteFail
    \/ EosMrouteOk(PairEosDocs)
    \/ NxStart
    \/ NxMrouteFail
    \/ NxMrouteOk(PairNxDocs)
    \/ NxFdmrFail
    \/ NxFdmrOk(PairFdmrTexts)
    \/ Finish(TRUE)

SpecPair == Init /\ [][NextPair]_vars

----------------------------------------------------------------------------
(* The classifiers run on their own, on every record of the sample sets.   *)

ClassifyEosFlags == {None, <<>>, <<"S">>, <<"S", "K">>, <<"J">>, <<"J", "S">>,
                     <<"K", "M">>, <<"K", "S">>}
ClassifyOifLists == {None, <<>>, <<Eth2>>, <<Eth2, Eth3>>}
ClassifyEosRecs ==
    { FlowData(f, Eth1, o) : f \in ClassifyEosFlags, o \in ClassifyOifLists }

ClassifyPending == {None, TrueText, FalseText, TrueCaps}
ClassifyRates == {None, RateZero, RateBusy, RateTiny, RateBare}
ClassifyNxRecs ==
    { XmlRow(S1G1, Eth1, p, r, <<>>) : p \in ClassifyPending, r \in ClassifyRates }
ClassifyNxFlags == {<<>>, <<"O">>, <<"D">>, <<"G", "L">>, <<"L", "D">>,
                    <<"G", "O">>}

InitClassify ==
    /\ InitCycle
    /\ c_status = NotRun
    /\ \/ c_vendor = "eos" /\ c_rec \in ClassifyEosRecs /\ c_flags = <<>>
       \/ c_vendor = "nxos" /\ c_rec \in ClassifyNxRecs /\ c_flags \in ClassifyNxFlags

ClassifyEos ==
    /\ c_vendor = "eos"
    /\ c_status = NotRun
    /\ c_status' = _mcast_sg_status(c_rec)
    /\ UNCHANGED <<c_vendor, c_rec, c_flags, cycleVars>>

ClassifyNx ==
    /\ c_vendor = "nxos"
    /\ c_status = NotRun
    /\ c_status' = _form_sg_status(c_rec, c_flags)
    /\ UNCHANGED <<c_vendor, c_rec, c_flags, cycleVars>>

NextClassify == ClassifyEos \/ ClassifyNx

SpecClassify == InitClassify /\ [][NextClassify]_vars

----------------------------------------------------------------------------
(* Properties of the classifiers, under SpecClassify.                      *)

Leading(text) == IF Len(text) > 0 THEN text[1] ELSE "-"

\* C1: the EOS classifier, on a record holding routeFlags and oifList,
\* returns 0 for flags that start with S and a non-empty oifList, 1 for flags
\* that start with S and an empty oifList, 2 for flags that start with J, and
\* 1 for any other flags; always one of 0, 1, 2.
C1_EosRules ==
    (/\ c_vendor = "eos"
     /\ c_status # NotRun
     /\ {"routeFlags", "oifList"} \subseteq DOMAIN c_rec)
    => /\ ~ c_status.raised
       /\ c_status.value \in {0, 1, 2}
       /\ c_status.value =
             CASE Leading(c_rec["routeFlags"]) = "S" ->
                     (IF Len(c_rec["oifList"]) > 0 THEN 0 ELSE 1)
               [] Leading(c_rec["routeFlags"]) = "J" -> 2
               [] OTHER -> 1

\* the SPT rule decided a flow with outgoing interfaces
C1_Witness ==
    /\ c_vendor = "eos"
    /\ c_status = Return(0)
    /\ c_rec["routeFlags"] = <<"S", "K">>
    /\ c_rec["oifList"] = <<Eth2, Eth3>>

HasFlag(flags, ch) == ch \in { flags[i] : i \in DOMAIN flags }

IsPending(rec) == "pending" \in DOMAIN rec /\ rec["pending"] = <<"t", "r", "u", "e">>

\* the text begins with the six characters "0.000 "
ZeroRate(text) ==
    /\ Len(text) >= 6
    /\ <<text[1], text[2], text[3], text[4], text[5], text[6]>>
           = <<"0", ".", "0", "0", "0", " ">>

\* C2: the NX-OS classifier returns 2 when pending is the literal "true",
\* whatever the flags and the rate text; else 2 when the flags contain O or
\* D; else 1 when the stats-rate-buf text begins with "0.000 " and 0 when the
\* text does not.
C2_NxRules ==
    (c_vendor = "nxos" /\ c_status # NotRun)
    => /\ IsPending(c_rec) => c_status = Return(2)
       /\ (~ IsPending(c_rec) /\ (HasFlag(c_flags, "O") \/ HasFlag(c_flags, "D")))
             => c_status = Return(2)
       /\ (/\ ~ IsPending(c_rec)
           /\ ~ HasFlag(c_flags, "O")
           /\ ~ HasFlag(c_flags, "D")
           /\ "stats-rate-buf" \in DOMAIN c_rec)
             => c_status = Return(IF ZeroRate(c_rec["stats-rate-buf"]) THEN 1 ELSE 0)

\* the rate rule decided a record whose pending text is not "true" and whose
\* flags hold neither O nor D
C2_Witness ==
    /\ c_vendor = "nxos"
    /\ c_status = Return(1)
    /\ "pending" \in DOMAIN c_rec
    /\ c_rec["pending"] = FalseText
    /\ c_flags = <<"G", "L">>

\* C3: the classifiers never raise on a missing optional field: every run
\* returns a status code of 0, 1 or 2, and an NX-OS record with no pending,
\* flags without O or D and no stats-rate-buf is classified 0.
C3_NeverRaises ==
    c_status # NotRun
    => /\ ~ c_status.raised
       /\ c_status.value \in {0, 1, 2}
       /\ (/\ c_vendor = "nxos"
           /\ "pending" \notin DOMAIN c_rec
           /\ "stats-rate-buf" \notin DOMAIN c_rec
           /\ ~ HasFlag(c_flags, "O")
           /\ ~ HasFlag(c_flags, "D")) => c_status.value = 0

----------------------------------------------------------------------------
(* Properties of the poll cycles, under Spec.                              *)

Metrics == { result.metrics[i] : i \in DOMAIN result.metrics }

PrimaryCmd == IF vendor = "eos" THEN EosMrouteCmd ELSE NxMrouteCmd

\* C4: when the primary mroute result is not ok the cycle logs one error and
\* returns None: no metric, no second try of the command, no further command.
C4_PrimaryFailure ==
    (pc = "done" /\ oks[1] = FALSE)
    => /\ result = ReturnNone
       /\ log = <<"error">>
       /\ cmds = <<PrimaryCmd>>
       /\ oks = <<FALSE>>

C4_Witness ==
    /\ pc = "done"
    /\ vendor = "nxos"
    /\ oks = <<FALSE>>
    /\ result.kind = "None"

\* lines of an FDMR text that are no flow line
JunkLines == {LineLegend, LineMask}

NoFlowLine(text) == \A i \in DOMAIN text : text[i] \in JunkLines

\* the status the pending and the rate rule alone give a row with a rate text
PendingRateStatus(row) ==
    IF IsPending(row) THEN 2
    ELSE IF ZeroRate(row["stats-rate-buf"]) THEN 1 ELSE 0

\* every row has its metric, with no flags, decided by pending and rate
DegradedList ==
    /\ result.kind = "list"
    /\ Len(result.metrics) = Len(mroute_out)
    /\ \A i \in DOMAIN mroute_out :
          /\ result.metrics[i].tags.flags = <<>>
          /\ result.metrics[i].value = PendingRateStatus(mroute_out[i])

\* C5 as stated: once the primary command succeeded, an FDMR text that is
\* missing, empty or without a flow line does not halt the cycle, and every
\* route row has its metric, with the empty flags tag and the status of the
\* pending and rate rules.
C5_Original ==
    (/\ pc = "done"
     /\ vendor = "nxos"
     /\ oks[1] = TRUE
     /\ (fdmr_text = Unbound \/ NoFlowLine(fdmr_text)))
    => DegradedList

\* C5 as amended: when both commands succeeded and the FDMR text is empty or
\* has no flow line, the flags map is empty and the cycle either raises on a
\* row or returns one metric per row, each with the empty flags tag and the
\* status of the pending and rate rules.
C5_Amended ==
    (/\ pc = "done"
     /\ vendor = "nxos"
     /\ oks = <<TRUE, TRUE>>
     /\ NoFlowLine(fdmr_text))
    => /\ fdmr_data = EmptyMap
       /\ \/ DegradedList
          \/ result.kind = "raise" /\ result.at \in DOMAIN mroute_out

\* a text of junk lines only, and two rows with their metrics
C5_Witness ==
    /\ pc = "done"
    /\ vendor = "nxos"
    /\ fdmr_text = <<LineMask, LineLegend>>
    /\ mroute_out = <<RowActive, RowPending>>
    /\ result.kind = "list"
    /\ result.metrics[1].value = 0
    /\ result.metrics[2].value = 2

\* the mcast-addrs text of the row has the form "(S/32, G/32)"
WellFormed(row) ==
    /\ "mcast-addrs" \in DOMAIN row
    /\ \E s, g \in IPLexemes : row["mcast-addrs"] = AddrsText(s, g)

\* C6: a route row whose mcast-addrs text is absent or not of the form
\* "(S/mask, G/mask)" makes the cycle raise: no list is returned, and no
\* metric of a returned list has an unset S or G tag.
C6_StructuralFailure ==
    (pc = "done" /\ vendor = "nxos" /\ oks = <<TRUE, TRUE>>)
    => /\ (\E i \in DOMAIN mroute_out : ~ WellFormed(mroute_out[i]))
             => result.kind = "raise"
       /\ \A m \in Metrics :
             /\ m.tags.S \notin {None, <<>>}
             /\ m.tags.G \notin {None, <<>>}

\* the second row is malformed, after a first row that has its metric
C6_Witness ==
    /\ pc = "done"
    /\ vendor = "nxos"
    /\ Len(mroute_out) = 2
    /\ mroute_out[1] = RowActive
    /\ mroute_out[2] \in {RowStar, RowNoAddrs}
    /\ result.kind = "raise"
    /\ result.at = 2

\* C7: no metric of either vendor has the wildcard address as its S tag.
C7_NoWildcard ==
    \A m \in Metrics : m.tags.S # <<"0.0.0.0">>

\* C8: a metric of either vendor has value 0 only if its oif_list tag is not
\* empty.
C8_ActiveHasOif ==
    \A m \in Metrics : m.value = 0 => m.tags.oif_list # <<>>

\* the (G, S) keys of the EOS output, the wildcard source left out
EosPairs ==
    UNION { { <<mroute_out.groups[i].key, mroute_out.groups[i].val.groupSources[j].key>> :
                j \in { j \in DOMAIN mroute_out.groups[i].val.groupSources :
                           mroute_out.groups[i].val.groupSources[j].key # <<"0.0.0.0">> } } :
            i \in DOMAIN mroute_out.groups }

AllOk == \A i \in DOMAIN oks : oks[i]

\* C9: a cycle whose commands all succeeded does not return None; the list
\* it returns holds one metric per (group, source) entry that is not the
\* wildcard (EOS), tagged with that pair, or one metric per route row
\* (NX-OS), each with the timestamp of the cycle; an output without flows
\* gives the empty list.
C9_OneToOne ==
    (pc = "done" /\ AllOk)
    => /\ result.kind # "None"
       /\ \A m \in Metrics : m.ts = timestamp
       /\ (vendor = "eos" /\ result.kind = "list")
             => /\ Len(result.metrics) = Cardinality(EosPairs)
                /\ { <<m.tags.G, m.tags.S>> : m \in Metrics } = EosPairs
       /\ (vendor = "eos" /\ EosPairs = {}) => result = ReturnList(<<>>)
       /\ (vendor = "nxos" /\ result.kind = "list")
             => /\ Len(result.metrics) = Len(mroute_out)
                /\ \A i \in DOMAIN mroute_out :
                      mroute_out[i]["mcast-addrs"]
                         = AddrsText(result.metrics[i].tags.S[1],
                                     result.metrics[i].tags.G[1])
       /\ (vendor = "nxos" /\ mroute_out = <<>>) => result = ReturnList(<<>>)

----------------------------------------------------------------------------
(* Properties of pairs of cycles, under SpecPair.                          *)

\* the cycle got from the device and the executor what the kept cycle got
SameInputs ==
    /\ prev.vendor = vendor
    /\ prev.ts = timestamp
    /\ prev.oks = oks
    /\ prev.mroute_out = mroute_out
    /\ prev.fdmr_text = fdmr_text

\* the flags the text gives the flow: those of its last flow line, else none
FlagsInText(text, s, g) ==
    LET recs == TtpMatches(text)
        at == { i \in DOMAIN recs :
                   recs[i].source_ipaddr = s /\ recs[i].group_ipaddr = g }
    IN IF at = {} THEN <<>>
       ELSE recs[CHOOSE i \in at : \A j \in at : j <= i].flags

====
